---- MODULE Spec2Model ----
(***************************************************************************)
(* The SecureNN protocol layer of tf-encrypted                              *)
(* (tensorflow_encrypted/protocol/securenn.py) as a state machine.          *)
(*                                                                          *)
(* A protocol instance is fixed by its ring modulus M.  Tensors are         *)
(* modelled element-wise (shape [1]): a private tensor is a pair of ring    *)
(* elements held by server_0 and server_1, a public tensor a pair of equal  *)
(* copies.  Every public method of SecureNN is a pure operator that takes   *)
(* the memoisation table and returns an outcome (value or exception, the    *)
(* number of sampling / sharing / reveal steps performed, and the table     *)
(* afterwards); the draws of the random number generator are parameters of  *)
(* the operator and are chosen by the invoking action.                      *)
(***************************************************************************)
EXTENDS Integers, Sequences, FiniteSets, TLC

VARIABLES
    M,      \* self.M / self.tensor_factory.Tensor.modulus, fixed at construction
    x,      \* a tensor held by the caller
    y,      \* a second tensor held by the caller
    nodes,  \* the table behind @memoize
    last    \* the outcome of the most recent invocation

vars == <<M, x, y, nodes, last>>

\* Largest ring modulus explored.
MaxModulus == 4

\* Number of entries of the memoisation table beyond which no further
\* invocation is explored.
MaxNodes == 6

\* Modulus of the auxiliary prime field that carries bit shares.
p == 67

Moduli == 2..MaxModulus

Ring(m) == 0..(m - 1)

Bits == {0, 1}

RECURSIVE Pow2(_)
Pow2(n) == IF n = 0 THEN 1 ELSE 2 * Pow2(n - 1)

\* Number of binary digits of v (0 for v = 0).
RECURSIVE BitLength(_)
BitLength(v) == IF v = 0 THEN 0 ELSE 1 + BitLength(v \div 2)

---------------------------------------------------------------------------
(* Tensors *)

PondPrivateTensor(share0, share1, is_scaled) ==
    [kind |-> "private", share0 |-> share0, share1 |-> share1,
     is_scaled |-> is_scaled]

\* value_on_0 and value_on_1 are kept in share0 and share1.
PondPublicTensor(value_on_0, value_on_1, is_scaled) ==
    [kind |-> "public", share0 |-> value_on_0, share1 |-> value_on_1,
     is_scaled |-> is_scaled]

NoTensor == [kind |-> "none", share0 |-> 0, share1 |-> 0, is_scaled |-> FALSE]

\* A Python int lifted to a public constant.
Constant(m, v) == PondPublicTensor(v % m, v % m, FALSE)

\* The plaintext behind a tensor whose shares live in the ring of size m.
reveal(m, t) ==
    IF t.kind = "public" THEN t.share0 ELSE (t.share0 + t.share1) % m

\* Pond._share: the first share is a fresh uniform draw r, the second one
\* is the secret minus that draw.
_share(m, secret, r) == PondPrivateTensor(r, (secret - r) % m, FALSE)

add(m, a, b) ==
    CASE a.kind = "private" /\ b.kind = "private" ->
           PondPrivateTensor((a.share0 + b.share0) % m, (a.share1 + b.share1) % m,
                             a.is_scaled \/ b.is_scaled)
      [] a.kind = "private" /\ b.kind = "public" ->
           PondPrivateTensor((a.share0 + b.share0) % m, a.share1,
                             a.is_scaled \/ b.is_scaled)
      [] a.kind = "public" /\ b.kind = "private" ->
           PondPrivateTensor((a.share0 + b.share0) % m, b.share1,
                             a.is_scaled \/ b.is_scaled)
      [] OTHER ->
           PondPublicTensor((a.share0 + b.share0) % m, (a.share1 + b.share1) % m,
                            a.is_scaled \/ b.is_scaled)

sub(m, a, b) ==
    CASE a.kind = "private" /\ b.kind = "private" ->
           PondPrivateTensor((a.share0 - b.share0) % m, (a.share1 - b.share1) % m,
                             a.is_scaled \/ b.is_scaled)
      [] a.kind = "private" /\ b.kind = "public" ->
           PondPrivateTensor((a.share0 - b.share0) % m, a.share1,
                             a.is_scaled \/ b.is_scaled)
      [] a.kind = "public" /\ b.kind = "private" ->
           PondPrivateTensor((a.share0 - b.share0) % m, (0 - b.share1) % m,
                             a.is_scaled \/ b.is_scaled)
      [] OTHER ->
           PondPublicTensor((a.share0 - b.share0) % m, (a.share1 - b.share1) % m,
                            a.is_scaled \/ b.is_scaled)

\* Multiplication.  Two private operands consume a triple of the crypto
\* producer: the product comes back freshly shared, its first share being
\* the uniform draw r.  A public operand multiplies each share locally.
mul(m, a, b, r) ==
    CASE a.kind = "private" /\ b.kind = "private" ->
           PondPrivateTensor(r, (reveal(m, a) * reveal(m, b) - r) % m,
                             a.is_scaled \/ b.is_scaled)
      [] a.kind = "private" /\ b.kind = "public" ->
           PondPrivateTensor((a.share0 * b.share0) % m, (a.share1 * b.share1) % m,
                             a.is_scaled \/ b.is_scaled)
      [] a.kind = "public" /\ b.kind = "private" ->
           PondPrivateTensor((a.share0 * b.share0) % m, (a.share1 * b.share1) % m,
                             a.is_scaled \/ b.is_scaled)
      [] OTHER ->
           PondPublicTensor((a.share0 * b.share0) % m, (a.share1 * b.share1) % m,
                            a.is_scaled \/ b.is_scaled)

\* Sampling / sharing / reveal steps that mul performs.
mul_work(a, b) == IF a.kind = "private" /\ b.kind = "private" THEN 1 ELSE 0

\* Multiplication by a Python int.
mul_int(m, a, k) ==
    [a EXCEPT !.share0 = (a.share0 * k) % m, !.share1 = (a.share1 * k) % m]

---------------------------------------------------------------------------
(* Outcomes and memoisation *)

Return(t, work, nd) ==
    [res |-> t, aux |-> 0, err |-> "none", work |-> work, nodes |-> nd]

Raise(e, work, nd) ==
    [res |-> NoTensor, aux |-> 0, err |-> e, work |-> work, nodes |-> nd]

NodeKey(name, a, b, c) == <<name, a, b, c>>

\* The element of a singleton; { f(v) : v \in {e} } evaluates e once.
Only(S) == CHOOSE e \in S : TRUE

\* @memoize: a cached result is returned as is; otherwise the body runs and,
\* unless it raises, its result is stored under the call's key.
memoize(nd, key, o) ==
    IF key \in DOMAIN nd
    THEN Return(nd[key], 0, nd)
    ELSE Only({ IF v.err # "none"
                THEN v
                ELSE [v EXCEPT !.nodes =
                         [k \in DOMAIN v.nodes \cup {key} |->
                             IF k = key THEN v.res ELSE v.nodes[k]]]
                : v \in {o} })

---------------------------------------------------------------------------
(* Boolean-ring algebra *)

bitwise_not(nd, a) ==
    memoize(nd, NodeKey("bitwise_not", a, NoTensor, NoTensor),
        IF a.is_scaled
        THEN Raise("AssertionError", 0, nd)
        ELSE Return(sub(M, Constant(M, 1), a), 0, nd))

\* bitwise_and with the @memoize decorator left out.
bitwise_and_not_memoized(nd, a, b, r) ==
    IF a.is_scaled \/ b.is_scaled
    THEN Raise("AssertionError", 0, nd)
    ELSE Return(mul(M, a, b, r), mul_work(a, b), nd)

\* bitwise_and with the assertion on its second operand left out.
bitwise_and_unchecked_y(nd, a, b, r) ==
    memoize(nd, NodeKey("bitwise_and", a, b, NoTensor),
        IF a.is_scaled
        THEN Raise("AssertionError", 0, nd)
        ELSE Return(mul(M, a, b, r), mul_work(a, b), nd))

bitwise_and(nd, a, b, r) ==
    memoize(nd, NodeKey("bitwise_and", a, b, NoTensor),
        IF a.is_scaled
        THEN Raise("AssertionError", 0, nd)
        ELSE IF b.is_scaled
             THEN Raise("AssertionError", 0, nd)
             ELSE Return(mul(M, a, b, r), mul_work(a, b), nd))

bitwise_or(nd, a, b, r) ==
    memoize(nd, NodeKey("bitwise_or", a, b, NoTensor),
        IF a.is_scaled
        THEN Raise("AssertionError", 0, nd)
        ELSE IF b.is_scaled
             THEN Raise("AssertionError", 0, nd)
             ELSE Only({ IF conj.err # "none"
                         THEN conj
                         ELSE Return(sub(M, add(M, a, b), conj.res),
                                     conj.work, conj.nodes)
                         : conj \in {bitwise_and(nd, a, b, r)} }))

\* bitwise_xor with the factor 2 left out (the formula of bitwise_or).
bitwise_xor_no_doubling(nd, a, b, r) ==
    memoize(nd, NodeKey("bitwise_xor", a, b, NoTensor),
        IF a.is_scaled \/ b.is_scaled
        THEN Raise("AssertionError", 0, nd)
        ELSE Only({ IF conj.err # "none"
                    THEN conj
                    ELSE Return(sub(M, add(M, a, b), conj.res),
                                conj.work, conj.nodes)
                    : conj \in {bitwise_and(nd, a, b, r)} }))

bitwise_xor(nd, a, b, r) ==
    memoize(nd, NodeKey("bitwise_xor", a, b, NoTensor),
        IF a.is_scaled
        THEN Raise("AssertionError", 0, nd)
        ELSE IF b.is_scaled
             THEN Raise("AssertionError", 0, nd)
             ELSE Only({ IF conj.err # "none"
                         THEN conj
                         ELSE Return(sub(M, add(M, a, b), mul_int(M, conj.res, 2)),
                                     conj.work, conj.nodes)
                         : conj \in {bitwise_and(nd, a, b, r)} }))

select_share(nd, a, b, bit, r) ==
    memoize(nd, NodeKey("select_share", a, b, bit),
        Return(add(M, a, mul(M, bit, sub(M, b, a), r)),
               mul_work(bit, sub(M, b, a)), nd))

---------------------------------------------------------------------------
(* Ring backend: wrap detection, bit decomposition, odd-modulus ring *)

\* Whether the sum of two ring elements overflows the modulus.
compute_wrap(a, b, modulus) == IF a + b >= modulus THEN 1 ELSE 0

\* Little-endian binary digits of a ring element, one per digit of M - 1.
to_bits(v) == [i \in 1..BitLength(M - 1) |-> (v \div Pow2(i - 1)) % 2]

\* The integer whose little-endian binary digits are bits.
RECURSIVE from_bits(_)
from_bits(bits) ==
    IF bits = << >> THEN 0 ELSE Head(bits) + 2 * from_bits(Tail(bits))

\* A bit vector shared digit by digit in the prime field of size p; draws
\* holds the uniform draw of each digit.
share_bits(bits, draws) ==
    [share0 |-> [i \in DOMAIN bits |-> draws[i] % p],
     share1 |-> [i \in DOMAIN bits |-> (bits[i] - draws[i]) % p]]

reveal_bits(sh) == [i \in DOMAIN sh.share0 |-> (sh.share0[i] + sh.share1[i]) % p]

\* A ring element reinterpreted in the odd ring of size M - 1.
odd_element(v) == v % (M - 1)

\* OddImplicitTensor.optional_sub: self - v where the bit is set, v elsewhere.
optional_sub(self, v, bit) == IF bit = 1 THEN (self - v) % (M - 1) ELSE v

\* Sharing with the wrap bit that recombining the two shares incurs.
\* The wrap is taken of the first share with itself.
share_with_wrap_self_wrap(sample, modulus, r) ==
    LET sh == _share(M, sample, r)
    IN  [x |-> sh.share0, y |-> sh.share1,
         kappa |-> compute_wrap(sh.share0, sh.share0, modulus)]

share_with_wrap(sample, modulus, r) ==
    LET sh == _share(M, sample, r)
    IN  [x |-> sh.share0, y |-> sh.share1,
         kappa |-> compute_wrap(sh.share0, sh.share1, modulus)]

\* prime_factory(2).Tensor.sample_uniform: one uniform bit, the same copy on
\* both servers.
_generate_random_bits(bit) == PondPublicTensor(bit, bit, FALSE)

odd_modulus_bitwise_xor(a, bits) ==
    PondPrivateTensor(optional_sub(1, a.share0, bits.share0),
                      optional_sub(0, a.share1, bits.share1), FALSE)

to_odd_modulus(a) ==
    PondPrivateTensor(odd_element(a.share0), odd_element(a.share1), FALSE)

---------------------------------------------------------------------------
(* Share conversion *)

\* The draws of one run of share_convert.
ConvertDraws ==
    [bitmask : Bits, sample : Ring(M), sharemask : Ring(M),
     delta : Ring(M), compared : Ring(M)]

share_convert(nd, a, rnd) ==
    LET L == M
    IN
    IF BitLength(L - 1) > 64      \* L > 2 ** 64
    THEN Raise("Exception", 0, nd)
    ELSE
    LET bitmask == _generate_random_bits(rnd.bitmask)
        sharemask == (rnd.sample + 1) % L
        sww == share_with_wrap(sharemask, L, rnd.sharemask)
        alpha_wrap == sww.kappa
        pvt_sharemask == PondPrivateTensor(sww.x, sww.y, FALSE)
        masked == add(L, a, pvt_sharemask)
        alpha == PondPrivateTensor(0 - alpha_wrap - 1, 0, FALSE)
        beta_wrap_0 == compute_wrap(a.share0, sww.x, L)
        beta_wrap_1 == compute_wrap(a.share1, sww.y, L)
        beta_wrap == PondPrivateTensor(beta_wrap_0, beta_wrap_1, FALSE)
        delta_wrap == compute_wrap(masked.share0, masked.share1, L)
        x_pub_masked == reveal(L, masked)
        xbits == to_bits(x_pub_masked)
        deltashares == _share(L, delta_wrap, rnd.delta)
        \* outbit = self.private_compare(...) is commented out: a tensor of ones
        outbit == PondPublicTensor(1, 1, FALSE)
        compared == _share(L, outbit.share0, rnd.compared)
        preconverter == odd_modulus_bitwise_xor(compared, bitmask)
        converter == add(L - 1,
                         add(L - 1,
                             add(L - 1, to_odd_modulus(beta_wrap), preconverter),
                             to_odd_modulus(deltashares)),
                         to_odd_modulus(alpha))
    IN  \* bitmask, sample, share_with_wrap, reveal, and the three _share calls
        Return(sub(L - 1, to_odd_modulus(a), converter), 7, nd)

---------------------------------------------------------------------------
(* Bit extraction and comparison suite *)

private_compare_placeholder(nd, xbits, r, beta) ==
    Return(PondPublicTensor(1, 1, FALSE), 0, nd)

private_compare(nd, xbits, r, beta) == Raise("NotImplementedError", 0, nd)

\* The contract of private_compare: the public bit (x > r) XOR beta.
private_compare_contract(nd, xbits, r, beta) ==
    LET xv == from_bits(reveal_bits(xbits))
        gt == IF xv > r.share0 THEN 1 ELSE 0
        bp == (gt + beta.share0) % 2
    IN  Return(PondPublicTensor(bp, bp, FALSE), 0, nd)

\* The draws of one run of _lsb_private: the mask x, the blinding bit b and
\* the draw behind the sharing of xlsb range over everything; the draws
\* behind the sharings of x and xbits, which are recombined before they are
\* used, are the largest element of their ring.
LsbDraws ==
    [x : Ring(M), xshare : {M - 1}, xbits : [1..BitLength(M - 1) -> {p - 1}],
     xlsb : Ring(M), b : Bits]

\* The lsb_mask scope and the reveal of the masked secret.
lsb_mask(yy, rnd) ==
    LET xv == rnd.x
        xbits == to_bits(xv)
        xlsb == xbits[1]
        xt == _share(M, xv, rnd.xshare)
        r == reveal(M, add(M, yy, xt))
        rbits0 == to_bits(r)
        rbits1 == to_bits(r)
    IN  [x |-> xt,
         xbits |-> share_bits(xbits, rnd.xbits),
         xlsb |-> _share(M, xlsb, rnd.xlsb),
         b |-> _generate_random_bits(rnd.b),
         r |-> PondPublicTensor(r, r, FALSE),
         rlsb |-> PondPublicTensor(rbits0[1], rbits1[1], FALSE),
         \* sample_uniform, three _share calls, the random bits, the reveal
         work |-> 6]

\* The recombination with gamma taken to be bp itself.
lsb_recombine_unblinded(loc, bp) ==
    IF bp.err # "none"
    THEN Raise(bp.err, loc.work + bp.work, bp.nodes)
    ELSE
    Only({
      IF delta.err # "none"
      THEN Raise(delta.err, loc.work + bp.work, delta.nodes)
      ELSE
      Only({
        [alpha EXCEPT !.work = loc.work + bp.work + delta.work + alpha.work]
        : alpha \in {bitwise_xor(delta.nodes, bp.res, delta.res, 0)} })
      : delta \in {bitwise_xor(bp.nodes, loc.xlsb, loc.rlsb, 0)} })

\* gamma, delta and alpha once private_compare has produced bp; an
\* exception of any call passes through.
lsb_recombine(loc, bp) ==
    IF bp.err # "none"
    THEN Raise(bp.err, loc.work + bp.work, bp.nodes)
    ELSE
    Only({
      IF gamma.err # "none"
      THEN Raise(gamma.err, loc.work + bp.work, gamma.nodes)
      ELSE
      Only({
        IF delta.err # "none"
        THEN Raise(delta.err, loc.work + bp.work + gamma.work, delta.nodes)
        ELSE
        Only({
          [alpha EXCEPT !.work =
              loc.work + bp.work + gamma.work + delta.work + alpha.work]
          : alpha \in {bitwise_xor(delta.nodes, gamma.res, delta.res, 0)} })
        : delta \in {bitwise_xor(gamma.nodes, loc.xlsb, loc.rlsb, 0)} })
      : gamma \in {bitwise_xor(bp.nodes, bp.res, loc.b, 0)} })

_lsb_private(nd, yy, rnd) ==
    Only({ Only({ lsb_recombine(loc, bp)
                  : bp \in {private_compare(nd, loc.xbits, loc.r, loc.b)} })
           : loc \in {lsb_mask(yy, rnd)} })

\* _lsb_private with private_compare behaving as its contract says.
_lsb_private_contract(nd, yy, rnd) ==
    Only({ Only({ lsb_recombine(loc, bp)
                  : bp \in {private_compare_contract(nd, loc.xbits, loc.r, loc.b)} })
           : loc \in {lsb_mask(yy, rnd)} })

\* dispatch('lsb', ...): every tensor handed in here is a PondPrivateTensor.
lsb(nd, a, rnd) == _lsb_private(nd, a, rnd)

\* msb with the parity check made after the bit extraction.
msb_late_check(nd, a, rnd) ==
    memoize(nd, NodeKey("msb", a, NoTensor, NoTensor),
        Only({ IF M % 2 # 1 THEN Raise("Exception", o.work, o.nodes) ELSE o
               : o \in {lsb(nd, mul_int(M, a, 2), rnd)} }))

msb(nd, a, rnd) ==
    memoize(nd, NodeKey("msb", a, NoTensor, NoTensor),
        IF M % 2 # 1
        THEN Raise("Exception", 0, nd)
        ELSE lsb(nd, mul_int(M, a, 2), rnd))

negative(nd, a, rnd) ==
    memoize(nd, NodeKey("negative", a, NoTensor, NoTensor), msb(nd, a, rnd))

non_negative(nd, a, rnd) ==
    memoize(nd, NodeKey("non_negative", a, NoTensor, NoTensor),
        Only({ IF s.err # "none"
               THEN s
               ELSE Only({ [n EXCEPT !.work = s.work + n.work]
                           : n \in {bitwise_not(s.nodes, s.res)} })
               : s \in {msb(nd, a, rnd)} }))

less(nd, a, b, rnd) ==
    memoize(nd, NodeKey("less", a, b, NoTensor), negative(nd, sub(M, a, b), rnd))

greater(nd, a, b, rnd) ==
    memoize(nd, NodeKey("greater", a, b, NoTensor), negative(nd, sub(M, b, a), rnd))

less_equal(nd, a, b, rnd) ==
    memoize(nd, NodeKey("less_equal", a, b, NoTensor),
        Only({ IF g.err # "none"
               THEN g
               ELSE Only({ [n EXCEPT !.work = g.work + n.work]
                           : n \in {bitwise_not(g.nodes, g.res)} })
               : g \in {greater(nd, a, b, rnd)} }))

greater_equal(nd, a, b, rnd) ==
    memoize(nd, NodeKey("greater_equal", a, b, NoTensor),
        Only({ IF l.err # "none"
               THEN l
               ELSE Only({ [n EXCEPT !.work = l.work + n.work]
                           : n \in {bitwise_not(l.nodes, l.res)} })
               : l \in {less(nd, a, b, rnd)} }))

relu(nd, a, rnd, r) ==
    memoize(nd, NodeKey("relu", a, NoTensor, NoTensor),
        Only({ IF drelu.err # "none"
               THEN drelu
               ELSE Return(mul(M, drelu.res, a, r),
                           drelu.work + mul_work(drelu.res, a), drelu.nodes)
               : drelu \in {non_negative(nd, a, rnd)} }))

divide(nd, a, b) == Raise("NotImplementedError", 0, nd)

max_pool(nd, a) == Raise("NotImplementedError", 0, nd)

dmax_pool_efficient(nd, a) == Raise("NotImplementedError", 0, nd)

---------------------------------------------------------------------------
(* State machine *)

NoCall ==
    [op |-> "none", arg |-> NoTensor, res |-> NoTensor, aux |-> 0,
     err |-> "none", work |-> 0]

\* One invocation of a method: its outcome becomes the last outcome and the
\* memoisation table is the one the method left behind.
Invoke(name, arg, o) ==
    \E v \in {o} :
        /\ last' = [op |-> name, arg |-> arg, res |-> v.res, aux |-> v.aux,
                    err |-> v.err, work |-> v.work]
        /\ nodes' = v.nodes
        /\ UNCHANGED <<M, x, y>>

\* Private tensors over the ring of size m, every pair of shares.
PrivateTensors(m) ==
    {PondPrivateTensor(s0, s1, FALSE) : s0 \in Ring(m), s1 \in Ring(m)}

\* Private tensors whose first share is one of the two extreme ring elements.
EdgeTensors(m) ==
    {PondPrivateTensor(s0, s1, FALSE) : s0 \in {0, m - 1}, s1 \in Ring(m)}

\* Private tensors that carry a bit, every sharing, scaled or not.
BitTensors(m) ==
    {PondPrivateTensor(s0, (v - s0) % m, sc) :
        v \in Bits, s0 \in Ring(m), sc \in BOOLEAN}

Invoke_bitwise_not == Invoke("bitwise_not", NoTensor, bitwise_not(nodes, x))

Invoke_bitwise_and ==
    \E r \in Ring(M) : Invoke("bitwise_and", NoTensor, bitwise_and(nodes, x, y, r))

Invoke_bitwise_or ==
    \E r \in Ring(M) : Invoke("bitwise_or", NoTensor, bitwise_or(nodes, x, y, r))

Invoke_bitwise_xor ==
    \E r \in Ring(M) : Invoke("bitwise_xor", NoTensor, bitwise_xor(nodes, x, y, r))

Invoke_select_share ==
    \E c \in Bits :
        LET bit == PondPublicTensor(c, c, FALSE)
        IN  Invoke("select_share", bit, select_share(nodes, x, y, bit, 0))

\* share_with_wrap on the ring element x.share0, as share_convert calls it:
\* the modulus handed in is the modulus of the ring.
Invoke_share_with_wrap ==
    \E r \in Ring(M) :
        LET t == share_with_wrap(x.share0, M, r)
        IN  Invoke("share_with_wrap", NoTensor,
                   [Return(PondPrivateTensor(t.x, t.y, FALSE), 1, nodes)
                       EXCEPT !.aux = t.kappa])

Invoke_share_convert ==
    \E rnd \in ConvertDraws :
        Invoke("share_convert", NoTensor, share_convert(nodes, x, rnd))

Invoke_msb == \E rnd \in LsbDraws : Invoke("msb", NoTensor, msb(nodes, x, rnd))

Invoke_lsb == \E rnd \in LsbDraws : Invoke("lsb", NoTensor, lsb(nodes, x, rnd))

Invoke_negative ==
    \E rnd \in LsbDraws : Invoke("negative", NoTensor, negative(nodes, x, rnd))

Invoke_non_negative ==
    \E rnd \in LsbDraws :
        Invoke("non_negative", NoTensor, non_negative(nodes, x, rnd))

Invoke_less ==
    \E rnd \in LsbDraws : Invoke("less", NoTensor, less(nodes, x, y, rnd))

Invoke_less_equal ==
    \E rnd \in LsbDraws :
        Invoke("less_equal", NoTensor, less_equal(nodes, x, y, rnd))

Invoke_greater ==
    \E rnd \in LsbDraws : Invoke("greater", NoTensor, greater(nodes, x, y, rnd))

Invoke_greater_equal ==
    \E rnd \in LsbDraws :
        Invoke("greater_equal", NoTensor, greater_equal(nodes, x, y, rnd))

\* The triple of drelu * x is drawn only once non_negative has returned.
Invoke_relu ==
    \E rnd \in LsbDraws :
        \E r \in (IF non_negative(nodes, x, rnd).err = "none" THEN Ring(M) ELSE {0}) :
            Invoke("relu", NoTensor, relu(nodes, x, rnd, r))

Invoke_private_compare ==
    \E beta \in Bits :
        Invoke("private_compare", NoTensor,
               private_compare(nodes, x, y, _generate_random_bits(beta)))

Invoke_divide == Invoke("divide", NoTensor, divide(nodes, x, y))

Invoke_max_pool == Invoke("max_pool", NoTensor, max_pool(nodes, x))

Invoke_dmax_pool_efficient ==
    Invoke("dmax_pool_efficient", NoTensor, dmax_pool_efficient(nodes, x))

\* lsb on a private tensor with private_compare honouring its contract.
Invoke_lsb_contract ==
    /\ Cardinality(DOMAIN nodes) < MaxNodes
    /\ \E rnd \in LsbDraws :
          Invoke("lsb", NoTensor, _lsb_private_contract(nodes, x, rnd))

\* The comparison suite and the unimplemented operations, on two private
\* tensors: x in every sharing, y of every value.
Init ==
    /\ M \in Moduli
    /\ x \in PrivateTensors(M)
    /\ y \in EdgeTensors(M)
    /\ nodes = << >>
    /\ last = NoCall

Next ==
    \/ Invoke_msb
    \/ Invoke_lsb
    \/ Invoke_negative
    \/ Invoke_non_negative
    \/ Invoke_less
    \/ Invoke_less_equal
    \/ Invoke_greater
    \/ Invoke_greater_equal
    \/ Invoke_relu
    \/ Invoke_private_compare
    \/ Invoke_divide
    \/ Invoke_max_pool
    \/ Invoke_dmax_pool_efficient

Spec == Init /\ [][Next]_vars

\* The boolean-ring algebra, select_share and share_with_wrap on two shared
\* bits.
InitBool ==
    /\ M \in Moduli
    /\ x \in BitTensors(M)
    /\ y \in BitTensors(M)
    /\ nodes = << >>
    /\ last = NoCall

NextBool ==
    \/ Invoke_bitwise_not
    \/ Invoke_bitwise_and
    \/ Invoke_bitwise_or
    \/ Invoke_bitwise_xor
    \/ Invoke_select_share
    \/ Invoke_share_with_wrap

SpecBool == InitBool /\ [][NextBool]_vars

\* Share conversion and wrap sharing on one private tensor.
InitConv ==
    /\ M \in Moduli
    /\ x \in PrivateTensors(M)
    /\ y = x
    /\ nodes = << >>
    /\ last = NoCall

NextConv ==
    \/ Invoke_share_convert
    \/ Invoke_share_with_wrap

SpecConv == InitConv /\ [][NextConv]_vars

\* Bit extraction with private_compare replaced by its contract.
NextContract == Invoke_lsb_contract

SpecContract == InitConv /\ [][NextContract]_vars

---------------------------------------------------------------------------
(* Properties *)

BooleanOps == {"bitwise_not", "bitwise_and", "bitwise_or", "bitwise_xor"}

MemoizedOps == BooleanOps \cup {"select_share"}

MsbOps ==
    {"msb", "negative", "non_negative", "less", "less_equal", "greater",
     "greater_equal", "relu"}

UnimplementedOps == {"private_compare", "divide", "max_pool", "dmax_pool_efficient"}

\* The plaintext read in the centred representation of the ring.
Centered(v) == IF v > (M - 1) \div 2 THEN v - M ELSE v

\* C1: under an even modulus M the two shares share_convert returns sum,
\* modulo M - 1, to the plaintext modulo M - 1, whatever the draws were.
C1_ShareConvertRoundTrip ==
    (last.op = "share_convert" /\ M % 2 = 0)
        => /\ last.err = "none"
           /\ reveal(M - 1, last.res) = reveal(M, x) % (M - 1)

\* C2: the triple share_with_wrap returns satisfies
\* share-A + share-B = sample + wrap-count * M over the integers.
C2_WrapSharingExact ==
    last.op = "share_with_wrap"
        => /\ last.err = "none"
           /\ last.res.share0 \in Ring(M)
           /\ last.res.share1 \in Ring(M)
           /\ last.res.share0 + last.res.share1 = x.share0 + last.aux * M

\* A sharing of a non-zero sample whose two shares wrap around the modulus.
C2_Witness ==
    /\ last.op = "share_with_wrap"
    /\ last.aux = 1
    /\ x.share0 > 0
    /\ last.res.share0 + last.res.share1 = x.share0 + M

\* C3: under an odd modulus msb returns a sharing of 1 when the plaintext is
\* negative in the centred representation and of 0 otherwise.
C3_SignConsistency ==
    (last.op = "msb" /\ M % 2 = 1)
        => /\ last.err = "none"
           /\ reveal(M, last.res) = (IF Centered(reveal(M, x)) < 0 THEN 1 ELSE 0)

\* C4: less returns a sharing of 1 exactly when a < b, and greater_equal a
\* sharing of the negation of that bit.
C4_ComparisonConsistency ==
    LET lt == IF Centered(reveal(M, x)) < Centered(reveal(M, y)) THEN 1 ELSE 0
    IN  /\ (last.op = "less" /\ M % 2 = 1)
            => (last.err = "none" /\ reveal(M, last.res) = lt)
        /\ (last.op = "greater_equal" /\ M % 2 = 1)
            => (last.err = "none" /\ reveal(M, last.res) = 1 - lt)

\* C5: on unscaled sharings of bits, NOT, AND, OR and XOR return a sharing of
\* the bit the truth table gives.
C5_BooleanClosure ==
    LET xv == reveal(M, x)
        yv == reveal(M, y)
        out == reveal(M, last.res)
    IN  /\ (last.op = "bitwise_not" /\ ~x.is_scaled)
            => (last.err = "none" /\ out = 1 - xv)
        /\ (last.op = "bitwise_and" /\ ~x.is_scaled /\ ~y.is_scaled)
            => (last.err = "none" /\ out = xv * yv)
        /\ (last.op = "bitwise_or" /\ ~x.is_scaled /\ ~y.is_scaled)
            => (last.err = "none" /\ out = (IF xv + yv > 0 THEN 1 ELSE 0))
        /\ (last.op = "bitwise_xor" /\ ~x.is_scaled /\ ~y.is_scaled)
            => (last.err = "none" /\ out = (xv + yv) % 2)
        /\ (last.op \in BooleanOps /\ last.err = "none") => out \in Bits

\* XOR of two shared ones has returned.
C5_Witness ==
    /\ last.op = "bitwise_xor"
    /\ last.err = "none"
    /\ reveal(M, x) = 1
    /\ reveal(M, y) = 1
    /\ x.kind = "private"
    /\ reveal(M, last.res) = 0

\* C6 as stated: under an even modulus every operation of the msb / lsb
\* family, lsb included, ends in the configuration error before anything is
\* sampled, shared or revealed.
C6_EvenModulusRefusal_WithLsb ==
    (M % 2 = 0 /\ last.op \in MsbOps \cup {"lsb"})
        => (last.err = "Exception" /\ last.work = 0)

\* C6 amended: under an even modulus msb and every operation built on it
\* (negative, non_negative, less, less_equal, greater, greater_equal, relu)
\* ends in the configuration error before anything is sampled, shared or
\* revealed and without a result.
C6_EvenModulusRefusal ==
    (M % 2 = 0 /\ last.op \in MsbOps)
        => /\ last.err = "Exception"
           /\ last.work = 0
           /\ last.res = NoTensor
           /\ nodes = << >>

\* relu has been refused under an even modulus.
C6_Witness ==
    /\ M % 2 = 0
    /\ last.op = "relu"
    /\ last.err = "Exception"

\* C7: a boolean operator handed a scaled operand, in either position, fails
\* with the assertion before any share arithmetic and without a result.
C7_ScaledInputRefused ==
    (/\ last.op \in BooleanOps
     /\ (x.is_scaled \/ (last.op # "bitwise_not" /\ y.is_scaled)))
        => /\ last.err = "AssertionError"
           /\ last.res = NoTensor
           /\ last.work = 0
           /\ \A k \in DOMAIN nodes : k[1] # last.op

\* bitwise_and has refused a scaled second operand next to an unscaled first.
C7_Witness ==
    /\ last.op = "bitwise_and"
    /\ ~x.is_scaled
    /\ y.is_scaled
    /\ last.err = "AssertionError"

\* C8: private_compare, divide, max_pool and dmax_pool_efficient raise the
\* unimplemented-operation signal with nothing sampled, shared or revealed by
\* them, and lsb on a private tensor ends in that same signal, having done
\* only the six steps that precede its call of private_compare.
C8_UnimplementedSignal ==
    /\ last.op \in UnimplementedOps
        => /\ last.err = "NotImplementedError"
           /\ last.work = 0
           /\ last.res = NoTensor
    /\ last.op = "lsb"
        => /\ last.err = "NotImplementedError"
           /\ last.work = 6
           /\ last.res = NoTensor
    /\ nodes = << >>

\* lsb on a private tensor has ended in the signal of private_compare.
C8_Witness ==
    /\ last.op = "lsb"
    /\ x.kind = "private"
    /\ last.err = "NotImplementedError"

\* Two successive invocations of the same operation on the same operands,
\* both of which returned.
SameInvocationTwice ==
    /\ last.op # "none"
    /\ last'.op = last.op
    /\ last'.arg = last.arg
    /\ last.err = "none"
    /\ last'.err = "none"

====
